---- MODULE Spec2Model ----
(***************************************************************************)
(* Echofy backend: the text analysis pipeline (claim extraction, claim     *)
(* verification, sentiment, source credibility, score aggregation) and     *)
(* the two endpoints that drive it (text and image).                       *)
(*                                                                         *)
(* Numbers that are Python floats in the source are modelled as exact      *)
(* rationals <<numerator, denominator>> in lowest terms; the rounding of   *)
(* IEEE doubles is outside the model.                                      *)
(***************************************************************************)
EXTENDS Integers, Sequences, FiniteSets, TLC

VARIABLES
    agg_pc,      \* aggregate_scores call: "ready" | "done"
    agg_in,      \* arguments and environment of the aggregate_scores call
    agg_out,     \* TrustScoreResponse returned by aggregate_scores
    ver_pc,      \* verify_claim call: "ready" | "done"
    ver_in,      \* the world of the verify_claim call
    ver_out,     \* ClaimVerification returned by verify_claim
    sen_pc,      \* analyze_sentiment_and_tone call: "ready" | "done"
    sen_in,      \* the analyzers and the summarizer of that call
    sen_out,     \* SentimentResult returned by analyze_sentiment_and_tone
    src_pc,      \* analyze_source call: "ready" | "done"
    src_in,      \* url and summarizer of the analyze_source call
    src_out,     \* SourceAnalysisResult returned by analyze_source
    ext_pc,      \* extract_claims call: "ready" | "done"
    ext_in,      \* outcome of the summarizer call made by extract_claims
    ext_out,     \* claims returned by extract_claims
    vs_pc,       \* position inside the body of verify_claim
    vs_in,       \* the world of that verify_claim call
    vs_calls,    \* the functions verify_claim has called so far, in order
    vs_locals,   \* local variables of verify_claim
    vs_out,      \* ClaimVerification returned by verify_claim
    pc,          \* position of the request inside its endpoint
    request,     \* [endpoint, url]: the request being served
    env,         \* process environment: API key present, models loaded
    claims,      \* claims returned by extract_claims
    source_analysis_result,
    sentiment_result,
    claim_breakdowns,
    claim_verifications_for_scoring,
    final_score_response,
    http,        \* what the endpoint answers: status 200 with a body, or 500
    an_pc,       \* perform_analysis call: "ready" | "done"
    an_in,       \* content and the draw of random.uniform
    an_out,      \* dictionary returned by perform_analysis
    tk_impl,     \* which tasks package serves: "app" | "api"
    tasks,       \* the task registry: one record per task id, ids 1, 2, ...
    background_tasks, \* per task id, the scheduled file_processor job
    temp_files,  \* ids whose uploaded file is still on disk
    tk_reply     \* answer to the last status query

aggVars == <<agg_pc, agg_in, agg_out>>
verVars == <<ver_pc, ver_in, ver_out>>
senVars == <<sen_pc, sen_in, sen_out>>
srcVars == <<src_pc, src_in, src_out>>
extVars == <<ext_pc, ext_in, ext_out>>
vsVars  == <<vs_pc, vs_in, vs_calls, vs_locals, vs_out>>
anVars  == <<an_pc, an_in, an_out>>
tkVars  == <<tk_impl, tasks, background_tasks, temp_files, tk_reply>>
pipVars == <<pc, request, env, claims, source_analysis_result, sentiment_result,
             claim_breakdowns, claim_verifications_for_scoring,
             final_score_response, http>>

vars == <<agg_pc, agg_in, agg_out, ver_pc, ver_in, ver_out, sen_pc, sen_in, sen_out,
          src_pc, src_in, src_out, ext_pc, ext_in, ext_out,
          vs_pc, vs_in, vs_calls, vs_locals, vs_out,
          pc, request, env, claims, source_analysis_result, sentiment_result,
          claim_breakdowns, claim_verifications_for_scoring,
          final_score_response, http,
          an_pc, an_in, an_out,
          tk_impl, tasks, background_tasks, temp_files, tk_reply>>

None == "None"

----------------------------------------------------------------------------
(* Exact rational arithmetic for the float expressions of the source.      *)

Abs(n) == IF n < 0 THEN -n ELSE n

RECURSIVE GCD(_, _)
GCD(a, b) == IF b = 0 THEN a ELSE GCD(b, a % b)

Rat(n, d) ==
    LET g == GCD(Abs(n), d)
    IN  IF g = 0 THEN <<0, 1>> ELSE <<n \div g, d \div g>>

RInt(n) == <<n, 1>>
RAdd(x, y) == Rat(x[1] * y[2] + y[1] * x[2], x[2] * y[2])
RSub(x, y) == Rat(x[1] * y[2] - y[1] * x[2], x[2] * y[2])
RMul(x, y) == Rat(x[1] * y[1], x[2] * y[2])
RLeq(x, y) == x[1] * y[2] <= y[1] * x[2]
RLess(x, y) == x[1] * y[2] < y[1] * x[2]
RMax(x, y) == IF RLeq(x, y) THEN y ELSE x
RMin(x, y) == IF RLeq(x, y) THEN x ELSE y
RAbs(x) == <<Abs(x[1]), x[2]>>

\* a value given in hundredths, e.g. Hundredths(80) is 0.8
Hundredths(n) == Rat(n, 100)

----------------------------------------------------------------------------
(* Bounds of the model.                                                    *)

MaxClaims == 3      \* longest verdict list handed to aggregate_scores
MaxSources == 4     \* most URLs the summarizer lists in a synthesis response
MaxExtracted == 2   \* most claims the summarizer lists for one request

----------------------------------------------------------------------------
(* Generative summarizer (Gemini) as seen from one call site: the module's *)
(* llm is None (no GEMINI_API key), or the call raises, or it returns a    *)
(* text.                                                                   *)

LlmNone  == "llm_none"
LlmRaise == "llm_raise"
LlmText  == "llm_text"
LlmOutcomes == {LlmNone, LlmRaise, LlmText}

----------------------------------------------------------------------------
(* score_aggregation.py                                                    *)

\* the strings aggregate_scores counts; any other final_assessment string
\* is counted neither as supported nor as contradicted.  A Python str that
\* is cut out of a summarizer response is a sequence of tokens (words,
\* " " and "\n"), so that strip() and split() can be modelled.
SUPPORTED    == <<"SUPPORTED">>
CONTRADICTED == <<"CONTRADICTED">>
UNCERTAIN    == <<"UNCERTAIN">>

W_verification       == Rat(6, 10)
W_sentiment          == Rat(2, 10)
W_source_credibility == Rat(2, 10)

ContradictionPenalty == 2

SummaryHigh == "The text appears to be generally trustworthy, with most claims supported by evidence and neutral language."
SummaryMid  == "Exercise caution. While some claims are supported, there are indicators of potential bias or unverified information."
SummaryLow  == "High skepticism advised. The text contains significant contradictions, biased language, or originates from a source with low credibility."
SummaryUnavailable == "AI-generated summary is currently unavailable."
SummaryDynamic == "<summary text returned by the summarizer>"

TierHigh == Rat(7, 10)
TierMid  == Rat(4, 10)

generate_dynamic_summary(final_score, factors, llm) ==
    IF llm = LlmNone
    THEN IF RLess(TierHigh, final_score) THEN SummaryHigh
         ELSE IF RLess(TierMid, final_score) THEN SummaryMid
         ELSE SummaryLow
    ELSE IF llm = LlmText THEN SummaryDynamic
    ELSE SummaryUnavailable

CountOf(cvs, a) == Cardinality({i \in 1..Len(cvs) : cvs[i].final_assessment = a})

verification_score_no_floor(cvs) ==
    IF Len(cvs) > 0
    THEN Rat(CountOf(cvs, SUPPORTED) - CountOf(cvs, CONTRADICTED) * ContradictionPenalty,
             Len(cvs))
    ELSE RInt(0)

verification_score_single_penalty(cvs) ==
    IF Len(cvs) > 0
    THEN Rat(IF CountOf(cvs, SUPPORTED) - CountOf(cvs, CONTRADICTED) > 0
             THEN CountOf(cvs, SUPPORTED) - CountOf(cvs, CONTRADICTED) ELSE 0,
             Len(cvs))
    ELSE RInt(0)

verification_score(cvs) ==
    IF Len(cvs) > 0
    THEN LET supported_count    == CountOf(cvs, SUPPORTED)
             contradicted_count == CountOf(cvs, CONTRADICTED)
             diff == supported_count - contradicted_count * ContradictionPenalty
         IN  Rat(IF diff > 0 THEN diff ELSE 0, Len(cvs))
    ELSE RInt(0)

verification_factor(cvs) ==
    IF Len(cvs) > 0
    THEN <<CountOf(cvs, SUPPORTED), "supported,", CountOf(cvs, CONTRADICTED),
           "contradicted claims.">>
    ELSE <<"No claims were verified.">>

sentiment_score_signed(compound) == RSub(RInt(1), compound)

sentiment_score(compound) == RSub(RInt(1), RAbs(compound))

weighted_sum_source_subtracted(v, s, c) ==
    RSub(RAdd(RMul(v, W_verification), RMul(s, W_sentiment)),
         RMul(c, W_source_credibility))

weighted_sum_even_weights(v, s, c) ==
    RAdd(RAdd(RMul(v, Rat(4, 10)), RMul(s, Rat(3, 10))), RMul(c, Rat(3, 10)))

weighted_sum(v, s, c) ==
    RAdd(RAdd(RMul(v, W_verification), RMul(s, W_sentiment)),
         RMul(c, W_source_credibility))

\* the score is kept only when the summarizer answered
aggregate_scores_scored_by_summary(claim_verifications, sentiment, source_analysis, llm) ==
    LET v       == verification_score(claim_verifications)
        s       == sentiment_score(sentiment.vader_scores.compound)
        c       == source_analysis.credibility_score
        factors == [verification       |-> verification_factor(claim_verifications),
                    sentiment          |-> <<"Sentiment:", sentiment.notes>>,
                    source_credibility |-> <<"Source:", source_analysis.bias_assessment>>]
        final   == IF llm = LlmText
                   THEN RMax(RInt(0), RMin(RInt(1), weighted_sum(v, s, c)))
                   ELSE RInt(0)
    IN  [trust_score |-> final,
         summary     |-> generate_dynamic_summary(final, factors, llm),
         factors     |-> factors,
         locals      |-> [verification_score |-> v,
                          sentiment_score    |-> s,
                          source_score       |-> c]]

\* claim_verifications: sequence of [claim, final_assessment];
\* sentiment: the SentimentResult argument [vader_scores: [compound, ...], notes, ...];
\* source_analysis: [credibility_score, bias_assessment, ...]
aggregate_scores(claim_verifications, sentiment, source_analysis, llm) ==
    LET v       == verification_score(claim_verifications)
        s       == sentiment_score(sentiment.vader_scores.compound)
        c       == source_analysis.credibility_score
        factors == [verification       |-> verification_factor(claim_verifications),
                    sentiment          |-> <<"Sentiment:", sentiment.notes>>,
                    source_credibility |-> <<"Source:", source_analysis.bias_assessment>>]
        final   == RMax(RInt(0), RMin(RInt(1), weighted_sum(v, s, c)))
    IN  [trust_score |-> final,
         summary     |-> generate_dynamic_summary(final, factors, llm),
         factors     |-> factors,
         \* the function's local variables, kept for inspection
         locals      |-> [verification_score |-> v,
                          sentiment_score    |-> s,
                          source_score       |-> c]]

----------------------------------------------------------------------------
(* Python str operations on token sequences.                               *)

Whitespace == {" ", "\n"}

RECURSIVE LStrip(_, _)
LStrip(s, chars) ==
    IF s # <<>> /\ Head(s) \in chars THEN LStrip(Tail(s), chars) ELSE s

RECURSIVE RStrip(_, _)
RStrip(s, chars) ==
    IF s # <<>> /\ s[Len(s)] \in chars
    THEN RStrip(SubSeq(s, 1, Len(s) - 1), chars) ELSE s

\* s.strip(chars)
StripChars(s, chars) == RStrip(LStrip(s, chars), chars)

\* s.strip()
Strip(s) == StripChars(s, Whitespace)

\* s.split(sep): always at least one part
RECURSIVE SplitAcc(_, _, _)
SplitAcc(s, sep, cur) ==
    IF s = <<>> THEN <<cur>>
    ELSE IF Head(s) = sep THEN <<cur>> \o SplitAcc(Tail(s), sep, <<>>)
    ELSE SplitAcc(Tail(s), sep, Append(cur, Head(s)))

Split(s, sep) == SplitAcc(s, sep, <<>>)

----------------------------------------------------------------------------
(* services/text/verification.py: evidence adapters                        *)

Adapters ==
    <<"serper", "tavily", "wikipedia", "newsapi_org", "newsdata_io",
      "google_fact_check", "reddit">>

AdapterSet == {Adapters[i] : i \in DOMAIN Adapters}

\* search_wikipedia is the one adapter without a credential check
NeedsKey(a) == a # "wikipedia"

\* what the remote call of an adapter does when it is made
NetOutcomes == {"error", "empty", "results"}

\* search_<adapter>(query): the string it returns, by kind
\*   "not_configured"  "<X> key not configured."
\*   "error"           "Error with <X> search: <e>"
\*   "empty"           a header (or a "no page/no fact checks found" line), no snippet
\*   "results"         a header followed by up to 3 snippets
search_adapter(a, world) ==
    IF NeedsKey(a) /\ ~world.keys[a]
    THEN [source |-> a, kind |-> "not_configured"]
    ELSE [source |-> a, kind |-> world.net[a]]

\* the round stops at the first adapter whose remote call raises
search_all_sources_aborts_on_error(world) ==
    LET all == [i \in DOMAIN Adapters |-> search_adapter(Adapters[i], world)]
        bad == {i \in DOMAIN all : all[i].kind = "error"}
    IN  IF bad = {} THEN all
        ELSE SubSeq(all, 1, (CHOOSE i \in bad : \A j \in bad : i <= j) - 1)

\* "\n\n".join(filter(None, results)): every adapter string is non-empty,
\* so all seven are kept, in call order
search_all_sources(world) == [i \in DOMAIN Adapters |-> search_adapter(Adapters[i], world)]

HasUsableSnippet(evidence) == \E i \in DOMAIN evidence : evidence[i].kind = "results"

----------------------------------------------------------------------------
(* services/text/verification.py: the summarizer calls of verify_claim     *)

\* outcome of llm.generate_content(prompt) followed by response.text:
\*   kind "raise": the call (or reading .text of a blocked response) raises
\*   kind "text":  .text is the token sequence `text`
CallRaise == "raise"
CallText  == "text"

FallbackQueryOpposite == <<"opposite of", " ", "<claim>">>
FallbackQuerySupport  == <<"evidence supporting", " ", "<claim>">>

generate_alternative_query(assessment, llm_configured, call) ==
    IF ~llm_configured \/ call.kind = CallRaise
    THEN IF assessment = CONTRADICTED THEN FallbackQueryOpposite
         ELSE FallbackQuerySupport
    ELSE Strip(call.text)

\* The synthesis response is `pre` tokens, one JSON document, `post` tokens.
\* json: [t, statement, sources_kind, sources]
\*   t "dict": an object; statement is a string or None when the key is absent;
\*             sources_kind "list" (sources a sequence of URLs), "null" or "missing"
\*   t "list" / "str": valid JSON that is not an object
\*   t "broken": not valid JSON
\* the Markdown code fence tokens, with and without the json tag
Fences == {"<fence json>", "<fence>"}

\* .replace(<fence json>, "").replace(<fence>, "")
RECURSIVE RemoveFences(_)
RemoveFences(s) ==
    IF s = <<>> THEN <<>>
    ELSE IF Head(s) \in Fences THEN RemoveFences(Tail(s))
    ELSE <<Head(s)>> \o RemoveFences(Tail(s))

\* json.loads accepts the document when only whitespace surrounds it
JsonLoads(pre, json, post) ==
    IF json.t # "broken" /\ Strip(pre) = <<>> /\ Strip(post) = <<>>
    THEN [ok |-> TRUE, value |-> json]
    ELSE [ok |-> FALSE, value |-> json]

StatementNoLlm  == "Could not analyze alternative results."
StatementFailed == "AI analysis of alternative results failed."

FallbackAnalysis(statement) ==
    [t |-> "dict", statement |-> statement, sources_kind |-> "list", sources |-> <<>>]

analyze_alternative_results(llm_configured, call) ==
    IF ~llm_configured THEN FallbackAnalysis(StatementNoLlm)
    ELSE IF call.kind = CallRaise THEN FallbackAnalysis(StatementFailed)
    ELSE LET cleaned_pre  == RemoveFences(LStrip(call.pre, Whitespace))
             cleaned_post == RemoveFences(RStrip(call.post, Whitespace))
             loaded       == JsonLoads(cleaned_pre, call.json, cleaned_post)
         IN  IF loaded.ok THEN loaded.value ELSE FallbackAnalysis(StatementFailed)

----------------------------------------------------------------------------
(* services/text/verification.py: verify_claim                             *)

NoReasoning == <<"No reasoning provided.">>

ErrNotConfigured == "Gemini LLM not configured."
ErrLlm           == "<exception raised by the summarizer call>"
ErrNoGet         == "object has no attribute 'get'"
ErrNotIterable   == "'NoneType' object is not iterable"

ClaimVerificationModel(claim, final_assessment, reasoning, corrective_statement, supporting_evidence, sources) ==
    [type                 |-> "ClaimVerification",
     claim                |-> claim,
     results              |-> <<>>,
     final_assessment     |-> final_assessment,
     reasoning            |-> reasoning,
     corrective_statement |-> corrective_statement,
     supporting_evidence  |-> supporting_evidence,
     sources              |-> sources]

VerifyExcept_keeps_error_label(claim, e) ==
    ClaimVerificationModel(claim, <<"ERROR">>, <<"An error occurred:", " ", e>>,
                           None, None, <<>>)

\* the except branch of verify_claim
VerifyExcept(claim, e) ==
    ClaimVerificationModel(claim, UNCERTAIN, <<"An error occurred:", " ", e>>,
                           None, None, <<>>)

SecondRound_swapped(claim, final_assessment, reasoning, w) ==
    LET analysis == analyze_alternative_results(w.llm_configured, w.synth)
    IN  ClaimVerificationModel(
            claim, final_assessment, reasoning,
            IF final_assessment = SUPPORTED THEN analysis.statement ELSE None,
            IF final_assessment = SUPPORTED THEN None ELSE analysis.statement,
            <<>>)

\* the second search, entered when final_assessment is SUPPORTED or CONTRADICTED
SecondRound(claim, final_assessment, reasoning, w) ==
    LET alternative_query   == generate_alternative_query(final_assessment,
                                   w.llm_configured, w.altq)
        alternative_results == search_all_sources(w.ev2)
        analysis            == analyze_alternative_results(w.llm_configured, w.synth)
    IN  IF analysis.t # "dict" THEN VerifyExcept(claim, ErrNoGet)
        ELSE IF analysis.sources_kind = "null" THEN VerifyExcept(claim, ErrNotIterable)
        ELSE ClaimVerificationModel(
                 claim, final_assessment, reasoning,
                 IF final_assessment = CONTRADICTED THEN analysis.statement ELSE None,
                 IF final_assessment = CONTRADICTED THEN None ELSE analysis.statement,
                 IF analysis.sources_kind = "list"
                 THEN [i \in DOMAIN analysis.sources |-> [url |-> analysis.sources[i]]]
                 ELSE <<>>)

EntersSecondRound_unless_uncertain(final_assessment) ==
    final_assessment # UNCERTAIN

\* if final_assessment in ['SUPPORTED', 'CONTRADICTED']
EntersSecondRound(final_assessment) ==
    final_assessment \in {SUPPORTED, CONTRADICTED}

\* w: the world of one call
\*   llm_configured  verification.llm is not None
\*   ev1, ev2        what the adapters do in the first and the second search
\*   classify        outcome of the classification call
\*   altq, synth     outcomes of the follow-up query and synthesis calls
verify_claim(claim, w) ==
    LET initial_search_results == search_all_sources(w.ev1)
    IN  IF ~w.llm_configured THEN VerifyExcept(claim, ErrNotConfigured)
        ELSE IF w.classify.kind = CallRaise THEN VerifyExcept(claim, ErrLlm)
        ELSE LET parts            == Split(Strip(w.classify.text), "\n")
                 final_assessment == Strip(parts[1])
                 reasoning        == IF Len(parts) > 1 THEN Strip(parts[2])
                                     ELSE NoReasoning
             IN  IF EntersSecondRound(final_assessment)
                 THEN SecondRound(claim, final_assessment, reasoning, w)
                 ELSE ClaimVerificationModel(claim, final_assessment, reasoning,
                                             None, None, <<>>)


----------------------------------------------------------------------------
(* text/sentiment_analysis.py                                              *)

NotesStrong      == <<"Warning", ":", " ", "Text has a very strong sentiment polarity, which could be indicative of manipulative or biased language.">>
NotesEmotional   == <<"Note", ":", " ", "Text is highly emotional with low neutrality.">>
NotesNothing     == <<"No specific manipulative language detected.">>
NotesUnavailable == <<"AI-generated notes are currently unavailable.">>
NotesNotLoaded   == <<"Sentiment models could not be loaded.">>

StrongPolarity == Rat(7, 10)
LowNeutrality  == Rat(5, 10)
ToneThreshold  == Rat(5, 100)

\* llm: LlmNone when sentiment_analysis.llm is None, else the call's outcome;
\* text: what the summarizer returns when it answers
generate_dynamic_notes(vader_scores, transformer_label, llm, text) ==
    IF llm = LlmNone
    THEN IF RLess(StrongPolarity, RAbs(vader_scores.compound)) THEN NotesStrong
         ELSE IF RLess(vader_scores.neu, LowNeutrality) THEN NotesEmotional
         ELSE NotesNothing
    ELSE IF llm = LlmText THEN Strip(text)
    ELSE NotesUnavailable

DegradedSentiment ==
    [vader_scores      |-> [neu |-> RInt(0), compound |-> RInt(0)],
     transformer_label |-> "UNAVAILABLE",
     overall_sentiment |-> "UNKNOWN",
     notes             |-> NotesNotLoaded]

overall_sentiment_ignores_classifier(compound_score, transformer_label) ==
    IF RLess(ToneThreshold, compound_score) THEN "POSITIVE"
    ELSE IF RLess(compound_score, RSub(RInt(0), ToneThreshold)) THEN "NEGATIVE"
    ELSE "NEUTRAL"

overall_sentiment_mixed(compound_score, transformer_label) ==
    IF RLess(ToneThreshold, compound_score) /\ transformer_label = "POSITIVE"
    THEN "POSITIVE"
    ELSE IF RLess(compound_score, RSub(RInt(0), ToneThreshold))
            /\ transformer_label = "NEGATIVE"
    THEN "NEGATIVE"
    ELSE IF RLeq(RAbs(compound_score), ToneThreshold) THEN "NEUTRAL"
    ELSE "MIXED"

\* step 3 of analyze_sentiment_and_tone
overall_sentiment(compound_score, transformer_label) ==
    IF RLess(ToneThreshold, compound_score) /\ transformer_label = "POSITIVE"
    THEN "POSITIVE"
    ELSE IF RLess(compound_score, RSub(RInt(0), ToneThreshold))
            /\ transformer_label = "NEGATIVE"
    THEN "NEGATIVE"
    ELSE "NEUTRAL"

\* loaded: vader_analyzer and sentiment_pipeline were both created;
\* vader_scores: what VADER measures (neg and pos are carried but never read,
\* and are left out); transformer_label: what the classifier says
analyze_sentiment_and_tone(loaded, vader_scores, transformer_label, llm, text) ==
    IF ~loaded THEN DegradedSentiment
    ELSE [vader_scores      |-> vader_scores,
          transformer_label |-> transformer_label,
          overall_sentiment |-> overall_sentiment(vader_scores.compound,
                                                  transformer_label),
          notes             |-> generate_dynamic_notes(vader_scores, transformer_label,
                                                       llm, text)]

----------------------------------------------------------------------------
(* services/text/source_analysis.py                                        *)

BiasedDomains == {"daily-mail.com", "breitbart.com", "theguardian.com"}

BIASED_SOURCES(domain) ==
    CASE domain = "daily-mail.com"  -> "Right-leaning, potential for sensationalism"
      [] domain = "breitbart.com"   -> "Far-right, known for strong political bias"
      [] domain = "theguardian.com" -> "Left-leaning, generally reliable but with a clear perspective"

\* A URL is the sequence of its pieces between "/" characters, so
\* "https://breitbart.com/news" is <<"https:", "", "breitbart.com", "news">>.
IsScheme(piece) == piece \in {"https:", "http:"}

\* urlparse(url).netloc: the piece after "<scheme>://" or after a leading "//"
Netloc(url) ==
    IF Len(url) >= 3 /\ (IsScheme(url[1]) \/ url[1] = "") /\ url[2] = ""
    THEN url[3] ELSE ""

\* urlparse raises ValueError on an unbalanced bracket in the host
\* ("Invalid IPv6 URL"), e.g. "http://[::1/a"
UrlparseRaises(url) ==
    Len(url) >= 3 /\ (IsScheme(url[1]) \/ url[1] = "") /\ url[2] = "" /\ url[3] = "[::1"

NotesNotFound == <<"Source not found in the watchlist.">>
AssessmentUnavailable == <<"AI-generated assessment is currently unavailable.">>
AssessmentDynamic == <<"<assessment text returned by the summarizer>">>

generate_dynamic_assessment(source_notes, credibility_score, llm) ==
    IF llm = LlmNone THEN source_notes
    ELSE IF llm = LlmText THEN AssessmentDynamic
    ELSE AssessmentUnavailable

CredibilityDefault == Rat(8, 10)
CredibilityBiased  == Rat(5, 10)

\* no URL (None) is the empty sequence; the empty string splits into <<"">>
NoUrl == <<>>
Truthy(url) == url \notin {NoUrl, <<"">>}

analyze_source(url, llm) ==
    LET domain  == IF Truthy(url) /\ ~UrlparseRaises(url) THEN Netloc(url) ELSE ""
        matched == Truthy(url) /\ domain # "" /\ domain \in BiasedDomains
        credibility_score == IF matched THEN CredibilityBiased ELSE CredibilityDefault
        notes == IF matched
                 THEN <<"Source domain", domain, "is on a watchlist:",
                        BIASED_SOURCES(domain)>>
                 ELSE NotesNotFound
    IN  [credibility_score |-> credibility_score,
         bias_assessment   |-> generate_dynamic_assessment(notes, credibility_score, llm),
         notes             |-> notes]

----------------------------------------------------------------------------
(* text/claim_extraction.py                                                *)

RECURSIVE SelectNonBlank_drops_repeats(_)
SelectNonBlank_drops_repeats(lines) ==
    IF lines = <<>> THEN <<>>
    ELSE LET rest == SelectNonBlank_drops_repeats(SubSeq(lines, 1, Len(lines) - 1))
             last == lines[Len(lines)]
         IN  IF Strip(last) # <<>> /\ \A i \in DOMAIN rest : rest[i] # last
             THEN Append(rest, last) ELSE rest

RECURSIVE SelectNonBlank(_)
SelectNonBlank(lines) ==
    IF lines = <<>> THEN <<>>
    ELSE IF Strip(Head(lines)) # <<>>
         THEN <<Head(lines)>> \o SelectNonBlank(Tail(lines))
         ELSE SelectNonBlank(Tail(lines))

extract_claims_reports_error(call) ==
    IF call.kind = CallRaise THEN <<[text |-> <<"An error occurred during claim extraction">>]>>
    ELSE LET lines == SelectNonBlank(Split(call.text, "\n"))
         IN  [i \in DOMAIN lines |->
                 [text |-> Strip(StripChars(lines[i], {"-", " "}))]]

\* call: outcome of llm.generate_content(full_prompt)
extract_claims(call) ==
    IF call.kind = CallRaise THEN <<>>
    ELSE LET lines == SelectNonBlank(Split(call.text, "\n"))
         IN  [i \in DOMAIN lines |->
                 [text |-> Strip(StripChars(lines[i], {"-", " "}))]]

----------------------------------------------------------------------------
(* services/text/entry.py and routes/image.py: the two endpoints           *)

\* what a module-level llm does at one call site: None when the module has
\* no llm, otherwise the call raises or answers
SiteLlm(configured) == IF configured THEN {LlmRaise, LlmText} ELSE {LlmNone}

Http200(body)   == [status |-> 200, body |-> body, detail |-> None]
Http500(detail) == [status |-> 500, body |-> None, detail |-> detail]

ErrNoUpper    == "AttributeError: 'ClaimVerification' object has no attribute 'upper'"
ErrIndex      == "IndexError: list index out of range"
ErrOcr        == "OCR failed"

\* str.upper() on the tokens that matter to the status test
Upper(t) ==
    CASE t = "supported"    -> "SUPPORTED"
      [] t = "contradicted" -> "CONTRADICTED"
      [] OTHER              -> t

\* word in text.upper()
InUpper(word, text) == \E i \in DOMAIN text : Upper(text[i]) = word

\* entry.py lines 75-79, for a verification_response that is a str
StatusOfText(text) ==
    IF InUpper("SUPPORTED", text) THEN SUPPORTED
    ELSE IF InUpper("CONTRADICTED", text) THEN CONTRADICTED
    ELSE UNCERTAIN

\* entry.ClaimBreakdown; keyword arguments it does not declare are ignored
ClaimBreakdown(claim, status, reason) ==
    [claim |-> claim, status |-> status, supporting_sources |-> <<>>, reason |-> reason]

\* "Warning" in notes
HasWarning(notes) == \E i \in DOMAIN notes : notes[i] = "Warning"

AnalysisResponse(scored, breakdowns, source_breakdown, sentiment) ==
    [trust_score |-> scored.trust_score,
     summary     |-> scored.summary,
     breakdown   |-> [claim_extraction   |-> breakdowns,
                      source_analysis    |-> source_breakdown,
                      sentiment_analysis |->
                          [score |-> sentiment.vader_scores.compound,
                           tone  |-> sentiment.overall_sentiment]],
     flags       |-> IF HasWarning(sentiment.notes) THEN <<sentiment.notes>> ELSE <<>>]

\* routes/image.py: the SourceAnalysisResult handed to aggregate_scores
dummy_source ==
    [credibility_score |-> RInt(0), bias_assessment |-> <<"Unknown">>, notes |-> <<>>]

----------------------------------------------------------------------------
(* Each specification below drives one part of the program; the variables  *)
(* of the other parts stay switched off.                                   *)

AggOff == agg_pc = "off" /\ agg_in = None /\ agg_out = None
VerOff == ver_pc = "off" /\ ver_in = None /\ ver_out = None
SenOff == sen_pc = "off" /\ sen_in = None /\ sen_out = None
SrcOff == src_pc = "off" /\ src_in = None /\ src_out = None
ExtOff == ext_pc = "off" /\ ext_in = None /\ ext_out = None
VsOff ==
    /\ vs_pc = "off" /\ vs_in = None /\ vs_calls = None
    /\ vs_locals = None /\ vs_out = None
AnOff == an_pc = "off" /\ an_in = None /\ an_out = None
TkOff ==
    /\ tk_impl = "off" /\ tasks = None /\ background_tasks = None
    /\ temp_files = None /\ tk_reply = None
PipOff ==
    /\ pc = "off" /\ request = None /\ env = None /\ claims = None
    /\ source_analysis_result = None /\ sentiment_result = None
    /\ claim_breakdowns = None /\ claim_verifications_for_scoring = None
    /\ final_score_response = None /\ http = None

----------------------------------------------------------------------------
(* aggregate_scores as a function of its arguments: every verdict list of  *)
(* at most MaxClaims entries, compound and credibility values inside and   *)
(* outside their nominal ranges (the fields are unconstrained floats).     *)

SeqsUpTo(S, n) == UNION {[1..k -> S] : k \in 0..n}

AggAssessments == {SUPPORTED, CONTRADICTED, UNCERTAIN, <<"Likely", " ", "SUPPORTED">>}
AggCompounds   == {-150, -100, -80, 0, 5, 80, 100}     \* hundredths
AggCredibility == {-50, 0, 50, 80, 100, 300}           \* hundredths

AggVerdictLists ==
    {[i \in 1..Len(q) |-> [claim |-> "claim", final_assessment |-> q[i]]] :
        q \in SeqsUpTo(AggAssessments, MaxClaims)}

AggInputs ==
    [claim_verifications : AggVerdictLists,
     compound            : AggCompounds,
     credibility         : AggCredibility,
     llm                 : LlmOutcomes]

AggSentiment(compound) ==
    [vader_scores |-> [compound |-> Hundredths(compound)], notes |-> "notes"]

AggSource(credibility) ==
    [credibility_score |-> Hundredths(credibility), bias_assessment |-> "bias"]

InitAgg ==
    /\ agg_pc = "ready"
    /\ agg_in \in AggInputs
    /\ agg_out = None
    /\ VerOff /\ SenOff /\ PipOff /\ SrcOff /\ ExtOff /\ VsOff /\ AnOff /\ TkOff

AggCall ==
    /\ agg_pc = "ready"
    /\ agg_out' = aggregate_scores(agg_in.claim_verifications,
                                   AggSentiment(agg_in.compound),
                                   AggSource(agg_in.credibility),
                                   agg_in.llm)
    /\ agg_pc' = "done"
    /\ UNCHANGED <<agg_in, verVars, senVars, pipVars, srcVars, extVars, vsVars, anVars, tkVars>>

NextAgg == AggCall

SpecAgg == InitAgg /\ [][NextAgg]_vars

----------------------------------------------------------------------------
(* verify_claim as a function of the world it runs in.                     *)

UniformWorlds ==
    {[keys |-> [a \in AdapterSet |-> k], net |-> [a \in AdapterSet |-> n]] :
        k \in BOOLEAN, n \in NetOutcomes}

\* only the encyclopedia answers; only the web search answers
MixedWorlds ==
    {[keys |-> [a \in AdapterSet |-> FALSE],
      net  |-> [a \in AdapterSet |-> IF a = "wikipedia" THEN "results" ELSE "error"]],
     [keys |-> [a \in AdapterSet |-> TRUE],
      net  |-> [a \in AdapterSet |-> IF a = "serper" THEN "results" ELSE "error"]]}

EvidenceWorlds == UniformWorlds \cup MixedWorlds

SecondEvidenceWorlds ==
    {w \in UniformWorlds : (\A a \in AdapterSet : w.keys[a]) /\ w.net["serper"] # "error"}

ClassifyTexts ==
    {<<"SUPPORTED", "\n", "reason">>,
     <<"CONTRADICTED", "\n", "reason">>,
     <<"UNCERTAIN", "\n", "reason">>,
     <<"\n", " ", "SUPPORTED", " ", "\n", " ", "reason", " ", "\n">>,
     <<"CONTRADICTED">>,
     <<"Assessment:", " ", "SUPPORTED", "\n", "reason">>,
     <<"SUPPORTED", ".", "\n", "reason">>,
     <<"supported", "\n", "reason">>,
     <<>>}

TextCall(t) == [kind |-> CallText, text |-> t]
RaisedCall  == [kind |-> CallRaise, text |-> <<>>]

ClassifyCalls == {RaisedCall} \cup {TextCall(t) : t \in ClassifyTexts}

AltqCalls == {RaisedCall, TextCall(<<" ", "follow-up query", "\n">>)}

\* URLs are numbered: source i of a synthesis response
JsonDict(statement, sources_kind, n) ==
    [t |-> "dict", statement |-> statement, sources_kind |-> sources_kind,
     sources |-> [i \in 1..n |-> i]]

JsonOther(t) == [t |-> t, statement |-> None, sources_kind |-> "missing", sources |-> <<>>]

JsonDocs ==
    {JsonDict("<statement>", "list", n) : n \in 0..MaxSources}
    \cup {JsonDict(None, "list", 1),
          JsonDict("<statement>", "null", 0),
          JsonDict("<statement>", "missing", 0),
          JsonOther("list"), JsonOther("str"), JsonOther("broken")}

Wrappings ==
    {[pre |-> <<>>, post |-> <<>>],
     [pre |-> <<"<fence json>", "\n">>, post |-> <<"\n", "<fence>", "\n">>],
     [pre |-> <<"Here is the JSON:", "\n">>, post |-> <<>>]}

SynthCalls ==
    {[kind |-> CallRaise, pre |-> <<>>, json |-> JsonOther("broken"), post |-> <<>>]}
    \cup {[kind |-> CallText, pre |-> x.pre, json |-> j, post |-> x.post] :
            x \in Wrappings, j \in JsonDocs}

VerifyWorlds ==
    [llm_configured : BOOLEAN,
     ev1            : EvidenceWorlds,
     classify       : ClassifyCalls,
     altq           : AltqCalls,
     ev2            : SecondEvidenceWorlds,
     synth          : SynthCalls]

InitVerify ==
    /\ ver_pc = "ready"
    /\ ver_in \in VerifyWorlds
    /\ ver_out = None
    /\ AggOff /\ SenOff /\ PipOff /\ SrcOff /\ ExtOff /\ VsOff /\ AnOff /\ TkOff

VerifyCall ==
    /\ ver_pc = "ready"
    /\ ver_out' = verify_claim(<<"claim">>, ver_in)
    /\ ver_pc' = "done"
    /\ UNCHANGED <<ver_in, aggVars, senVars, pipVars, srcVars, extVars, vsVars, anVars, tkVars>>

NextVerify == VerifyCall

SpecVerify == InitVerify /\ [][NextVerify]_vars

----------------------------------------------------------------------------
(* The body of verify_claim, statement by statement: the first search, the *)
(* classification, and the second round (follow-up query, second search,   *)
(* synthesis).  vs_calls lists the calls made so far.                      *)

\* a local variable that has not been assigned yet
Unset == [unset |-> TRUE]

\* corrective_statement, supporting_evidence and sources are initialised by
\* verify_claim; the other locals are unassigned, shown as empty
NoLocals ==
    [initial_search_results  |-> <<>>,
     final_assessment        |-> <<>>,
     reasoning               |-> <<>>,
     corrective_statement    |-> None,
     supporting_evidence     |-> None,
     sources                 |-> <<>>,
     alternative_query       |-> <<>>,
     alternative_results_str |-> <<>>]

InitVerifySteps ==
    /\ vs_pc = "search"
    /\ vs_in \in VerifyWorlds
    /\ vs_calls = <<>>
    /\ vs_locals = NoLocals
    /\ vs_out = Unset
    /\ AggOff /\ VerOff /\ SenOff /\ PipOff /\ SrcOff /\ ExtOff /\ AnOff /\ TkOff

VsOthers == <<aggVars, verVars, senVars, pipVars, srcVars, extVars, anVars, tkVars>>

\* initial_search_results = search_all_sources(claim)
VsSearch ==
    /\ vs_pc = "search"
    /\ vs_locals' = [vs_locals EXCEPT
                        !.initial_search_results = search_all_sources(vs_in.ev1)]
    /\ vs_calls' = Append(vs_calls, "search_all_sources")
    /\ vs_pc' = "classify"
    /\ UNCHANGED <<vs_in, vs_out, VsOthers>>

\* the classification: llm check, generate_content, parsing of the response
VsClassify ==
    /\ vs_pc = "classify"
    /\ IF ~vs_in.llm_configured
       THEN /\ vs_out' = VerifyExcept(<<"claim">>, ErrNotConfigured)
            /\ vs_pc' = "done"
            /\ UNCHANGED <<vs_calls, vs_locals>>
       ELSE /\ vs_calls' = Append(vs_calls, "llm.generate_content")
            /\ IF vs_in.classify.kind = CallRaise
               THEN /\ vs_out' = VerifyExcept(<<"claim">>, ErrLlm)
                    /\ vs_pc' = "done"
                    /\ UNCHANGED vs_locals
               ELSE LET parts == Split(Strip(vs_in.classify.text), "\n")
                        first == Strip(parts[1])
                    IN  /\ vs_locals' = [vs_locals EXCEPT
                               !.final_assessment = first,
                               !.reasoning = IF Len(parts) > 1 THEN Strip(parts[2])
                                             ELSE NoReasoning]
                        /\ vs_pc' = IF EntersSecondRound(first) THEN "alternative_query"
                                    ELSE "return"
                        /\ UNCHANGED vs_out
    /\ UNCHANGED <<vs_in, VsOthers>>

\* alternative_query = generate_alternative_query(claim, final_assessment)
VsAlternativeQuery ==
    /\ vs_pc = "alternative_query"
    /\ vs_locals' = [vs_locals EXCEPT
           !.alternative_query =
               generate_alternative_query(vs_locals.final_assessment,
                                          vs_in.llm_configured, vs_in.altq)]
    /\ vs_calls' = Append(vs_calls, "generate_alternative_query")
    /\ vs_pc' = "second_search"
    /\ UNCHANGED <<vs_in, vs_out, VsOthers>>

\* alternative_results_str = search_all_sources(alternative_query)
VsSecondSearch ==
    /\ vs_pc = "second_search"
    /\ vs_locals' = [vs_locals EXCEPT
                        !.alternative_results_str = search_all_sources(vs_in.ev2)]
    /\ vs_calls' = Append(vs_calls, "search_all_sources")
    /\ vs_pc' = "synthesis"
    /\ UNCHANGED <<vs_in, vs_out, VsOthers>>

\* analysis = analyze_alternative_results(...), then the statement and the sources
VsSynthesis ==
    /\ vs_pc = "synthesis"
    /\ vs_calls' = Append(vs_calls, "analyze_alternative_results")
    /\ LET analysis == analyze_alternative_results(vs_in.llm_configured, vs_in.synth)
       IN  IF analysis.t # "dict"
           THEN /\ vs_out' = VerifyExcept(<<"claim">>, ErrNoGet)
                /\ vs_pc' = "done"
                /\ UNCHANGED vs_locals
           ELSE IF analysis.sources_kind = "null"
           THEN /\ vs_out' = VerifyExcept(<<"claim">>, ErrNotIterable)
                /\ vs_pc' = "done"
                /\ UNCHANGED vs_locals
           ELSE /\ vs_locals' = [vs_locals EXCEPT
                       !.corrective_statement =
                           IF vs_locals.final_assessment = CONTRADICTED
                           THEN analysis.statement ELSE None,
                       !.supporting_evidence =
                           IF vs_locals.final_assessment = CONTRADICTED
                           THEN None ELSE analysis.statement,
                       !.sources =
                           IF analysis.sources_kind = "list"
                           THEN [i \in DOMAIN analysis.sources |->
                                    [url |-> analysis.sources[i]]]
                           ELSE <<>>]
                /\ vs_pc' = "return"
                /\ UNCHANGED vs_out
    /\ UNCHANGED <<vs_in, VsOthers>>

\* return ClaimVerification(...)
VsReturn ==
    /\ vs_pc = "return"
    /\ vs_out' = ClaimVerificationModel(<<"claim">>,
                     vs_locals.final_assessment, vs_locals.reasoning,
                     vs_locals.corrective_statement, vs_locals.supporting_evidence,
                     vs_locals.sources)
    /\ vs_pc' = "done"
    /\ UNCHANGED <<vs_in, vs_calls, vs_locals, VsOthers>>

NextVerifySteps ==
    \/ VsSearch
    \/ VsClassify
    \/ VsAlternativeQuery
    \/ VsSecondSearch
    \/ VsSynthesis
    \/ VsReturn

SpecVerifySteps == InitVerifySteps /\ [][NextVerifySteps]_vars

\* llm.generate_content is called without a deadline (the classification,
\* the follow-up query, the synthesis): a call that does not return leaves
\* verify_claim, and the request that called it, inside the call
VsCallHangs ==
    /\ vs_pc \in {"classify", "alternative_query", "synthesis"}
    /\ vs_in.llm_configured
    /\ vs_pc' = "blocked"
    /\ UNCHANGED <<vs_in, vs_calls, vs_locals, vs_out, VsOthers>>

\* the worlds with one answering adapter and an unwrapped synthesis response
HangWorlds ==
    [llm_configured : BOOLEAN,
     ev1            : MixedWorlds,
     classify       : ClassifyCalls,
     altq           : AltqCalls,
     ev2            : SecondEvidenceWorlds,
     synth          : {c \in SynthCalls : c.pre = <<>>}]

InitVerifyStepsHang ==
    /\ vs_pc = "search"
    /\ vs_in \in HangWorlds
    /\ vs_calls = <<>>
    /\ vs_locals = NoLocals
    /\ vs_out = Unset
    /\ AggOff /\ VerOff /\ SenOff /\ PipOff /\ SrcOff /\ ExtOff /\ AnOff /\ TkOff

NextVerifyStepsHang ==
    \/ NextVerifySteps
    \/ VsCallHangs

\* verify_claim keeps running as long as it has a statement to execute
SpecVerifyStepsHang ==
    InitVerifyStepsHang /\ [][NextVerifyStepsHang]_vars /\ WF_vars(NextVerifyStepsHang)

\* the statement-by-statement body returns what verify_claim returns
VerifyStepsAgree ==
    vs_pc = "done" => vs_out = verify_claim(<<"claim">>, vs_in)

----------------------------------------------------------------------------
(* analyze_sentiment_and_tone as a function of what the analyzers measure. *)

SenCompounds == {-100, -80, -6, -5, 0, 5, 6, 71, 100}     \* hundredths
SenNeutral   == {20, 60, 100}                             \* hundredths
SenLabels    == {"POSITIVE", "NEGATIVE"}
SenNoteTexts ==
    {<<" ", "The text has a strong negative polarity, which may indicate biased language.", "\n">>,
     <<"Warning", ":", " ", "the tone is extreme.">>}

SenInputs ==
    [loaded   : BOOLEAN,
     compound : SenCompounds,
     neu      : SenNeutral,
     label    : SenLabels,
     llm      : LlmOutcomes,
     text     : SenNoteTexts]

InitSentiment ==
    /\ sen_pc = "ready"
    /\ sen_in \in SenInputs
    /\ sen_out = None
    /\ AggOff /\ VerOff /\ PipOff /\ SrcOff /\ ExtOff /\ VsOff /\ AnOff /\ TkOff

SentimentCall ==
    /\ sen_pc = "ready"
    /\ sen_out' = analyze_sentiment_and_tone(
                      sen_in.loaded,
                      [neu |-> Hundredths(sen_in.neu),
                       compound |-> Hundredths(sen_in.compound)],
                      sen_in.label, sen_in.llm, sen_in.text)
    /\ sen_pc' = "done"
    /\ UNCHANGED <<sen_in, aggVars, verVars, pipVars, srcVars, extVars, vsVars, anVars, tkVars>>

NextSentiment == SentimentCall

SpecSentiment == InitSentiment /\ [][NextSentiment]_vars

----------------------------------------------------------------------------
(* analyze_source as a function of the url and of what the summarizer does. *)

SrcHosts ==
    BiasedDomains \cup {"example.org", "www.breitbart.com", "Breitbart.com", "[::1"}

SrcUrls ==
    {NoUrl, <<"">>}
    \cup {<<scheme, "", host>> : scheme \in {"https:", "http:", ""}, host \in SrcHosts}
    \cup {<<scheme, "", host, "news">> : scheme \in {"https:", "http:"}, host \in SrcHosts}
    \cup {<<host>> : host \in SrcHosts}
    \cup {<<host, "news">> : host \in SrcHosts}

SrcInputs == [url : SrcUrls, llm : LlmOutcomes]

InitSource ==
    /\ src_pc = "ready"
    /\ src_in \in SrcInputs
    /\ src_out = None
    /\ AggOff /\ VerOff /\ SenOff /\ PipOff /\ ExtOff /\ VsOff /\ AnOff /\ TkOff

SourceCall ==
    /\ src_pc = "ready"
    /\ src_out' = analyze_source(src_in.url, src_in.llm)
    /\ src_pc' = "done"
    /\ UNCHANGED <<src_in, aggVars, verVars, senVars, pipVars, extVars, vsVars, anVars, tkVars>>

NextSource == SourceCall

SpecSource == InitSource /\ [][NextSource]_vars

----------------------------------------------------------------------------
(* extract_claims as a function of the summarizer's response, given as the *)
(* lines the summarizer emitted.                                           *)

ExtLines ==
    {<<"claim A">>,
     <<"-", " ", "claim A">>,
     <<" ", "claim B", " ">>,
     <<"-", "5 degrees were measured", " ", "-">>,
     <<"-", " ">>,
     <<" ">>,
     <<>>}

\* "\n".join(lines)
RECURSIVE JoinLines(_)
JoinLines(lines) ==
    IF lines = <<>> THEN <<>>
    ELSE IF Len(lines) = 1 THEN lines[1]
    ELSE lines[1] \o <<"\n">> \o JoinLines(Tail(lines))

ExtInputs ==
    {[call |-> RaisedCall, lines |-> <<>>]}
    \cup {[call |-> TextCall(JoinLines(l)), lines |-> l] :
            l \in SeqsUpTo(ExtLines, MaxExtracted + 1) \ {<<>>}}

InitExtract ==
    /\ ext_pc = "ready"
    /\ ext_in \in ExtInputs
    /\ ext_out = None
    /\ AggOff /\ VerOff /\ SenOff /\ PipOff /\ SrcOff /\ VsOff /\ AnOff /\ TkOff

ExtractCall ==
    /\ ext_pc = "ready"
    /\ ext_out' = extract_claims(ext_in.call)
    /\ ext_pc' = "done"
    /\ UNCHANGED <<ext_in, aggVars, verVars, senVars, pipVars, srcVars, vsVars, anVars, tkVars>>

NextExtract == ExtractCall

SpecExtract == InitExtract /\ [][NextExtract]_vars

----------------------------------------------------------------------------
(* One request through the text endpoint or the image endpoint.            *)

PipUrls ==
    {NoUrl,
     <<"https:", "", "breitbart.com", "news">>,
     <<"https:", "", "example.org", "a">>,
     <<"breitbart.com">>,
     <<"breitbart.com", "a", "b">>}

Requests ==
    {[endpoint |-> "text", url |-> u] : u \in PipUrls}
    \cup {[endpoint |-> "image", url |-> NoUrl]}

Environments ==
    [gemini_key : BOOLEAN, sentiment_loaded : BOOLEAN, source_loaded : BOOLEAN]

ClaimWords == <<"claim A", "claim B", "claim C", "claim D">>

\* the summarizer lists k claims, one "- <claim>" line each
RECURSIVE ListText(_)
ListText(k) ==
    IF k = 0 THEN <<>>
    ELSE ListText(k - 1) \o <<"-", " ", ClaimWords[k], "\n">>

ExtractTexts ==
    {ListText(k) : k \in 0..MaxExtracted}
    \cup {<<"claim A", "\n", "\n", " ", "claim A", " ">>,
          <<"-", " ", "\n", "claim B">>}

\* claim_extraction builds its llm without looking at the key: without a key
\* every call raises
ExtractCalls(e) ==
    IF e.gemini_key THEN {RaisedCall} \cup {TextCall(t) : t \in ExtractTexts}
    ELSE {RaisedCall}

PipReadings == {[compound |-> -80, neu |-> 20],
                [compound |-> 0,   neu |-> 100],
                [compound |-> 6,   neu |-> 40]}

PipClassifyCalls ==
    {RaisedCall,
     TextCall(<<"SUPPORTED", "\n", "reason">>),
     TextCall(<<"CONTRADICTED", "\n", "reason">>),
     TextCall(<<"UNCERTAIN", "\n", "reason">>),
     TextCall(<<"Assessment:", " ", "SUPPORTED", "\n", "reason">>),
     TextCall(<<>>)}

PipSynthCalls ==
    {[kind |-> CallText, pre |-> <<>>, json |-> j, post |-> <<>>] :
        j \in {JsonDict("<statement>", "list", 1), JsonOther("list"),
               JsonOther("broken")}}

PipVerifyWorlds(e) ==
    [llm_configured : {e.gemini_key},
     ev1            : {w \in UniformWorlds : w.net["serper"] # "empty"
                                             /\ (w.keys["serper"] <=> w.net["serper"] = "results")},
     classify       : PipClassifyCalls,
     altq           : {RaisedCall},
     ev2            : SecondEvidenceWorlds,
     synth          : PipSynthCalls]

Init ==
    /\ request \in Requests
    /\ env \in Environments
    /\ pc = IF request.endpoint = "image" THEN "ocr" ELSE "extract"
    /\ claims = None
    /\ source_analysis_result = None
    /\ sentiment_result = None
    /\ claim_breakdowns = None
    /\ claim_verifications_for_scoring = None
    /\ final_score_response = None
    /\ http = None
    /\ AggOff /\ VerOff /\ SenOff /\ SrcOff /\ ExtOff /\ VsOff /\ AnOff /\ TkOff

ModuleVars == <<aggVars, verVars, senVars, srcVars, extVars, vsVars, anVars, tkVars>>

\* image.py step 1: extract_text_from_image raises or returns the text
Ocr ==
    /\ pc = "ocr"
    /\ \/ /\ pc' = "done"
          /\ http' = Http500(ErrOcr)
       \/ /\ pc' = "extract"
          /\ UNCHANGED http
    /\ UNCHANGED <<request, env, claims, source_analysis_result, sentiment_result,
                   claim_breakdowns, claim_verifications_for_scoring, final_score_response, ModuleVars>>

\* ingest_and_parse, then extract_claims
Extract ==
    /\ pc = "extract"
    /\ pc' = IF request.endpoint = "text" THEN "source" ELSE "sentiment"
    /\ \E call \in ExtractCalls(env) : claims' = extract_claims(call)
    /\ UNCHANGED <<request, env, source_analysis_result, sentiment_result,
                   claim_breakdowns, claim_verifications_for_scoring, http, final_score_response, ModuleVars>>

\* entry.py step 3, first half
Source ==
    /\ pc = "source"
    /\ \E llm \in SiteLlm(env.gemini_key /\ env.source_loaded) :
          source_analysis_result' = analyze_source(request.url, llm)
    /\ pc' = "sentiment"
    /\ UNCHANGED <<request, env, claims, sentiment_result,
                   claim_breakdowns, claim_verifications_for_scoring, http, final_score_response, ModuleVars>>

\* analyze_sentiment_and_tone, then the two empty lists of the claim loop
Sentiment ==
    /\ pc = "sentiment"
    /\ \E r \in PipReadings, label \in SenLabels, text \in SenNoteTexts,
          llm \in SiteLlm(env.gemini_key /\ env.sentiment_loaded) :
          sentiment_result' =
              analyze_sentiment_and_tone(
                  env.sentiment_loaded,
                  [neu |-> Hundredths(r.neu), compound |-> Hundredths(r.compound)],
                  label, llm, text)
    /\ claim_breakdowns' = <<>>
    /\ claim_verifications_for_scoring' = <<>>
    /\ pc' = "verify"
    /\ UNCHANGED <<request, env, claims, source_analysis_result, http, final_score_response, ModuleVars>>

\* entry.py: one turn of the claim loop
VerifyText ==
    /\ pc = "verify"
    /\ request.endpoint = "text"
    /\ Len(claim_breakdowns) < Len(claims)
    /\ \E w \in PipVerifyWorlds(env) :
          LET claim_model == claims[Len(claim_breakdowns) + 1]
              verification_response == verify_claim(claim_model.text, w)
          IN  IF verification_response.type # "str"
              THEN \* verification_response.upper() raises
                   /\ pc' = "done"
                   /\ http' = Http500(ErrNoUpper)
                   /\ UNCHANGED <<claim_breakdowns, claim_verifications_for_scoring>>
              ELSE LET status == StatusOfText(verification_response.text)
                   IN  /\ claim_breakdowns' =
                              Append(claim_breakdowns,
                                     ClaimBreakdown(claim_model.text, status,
                                                    verification_response.text))
                       /\ claim_verifications_for_scoring' =
                              Append(claim_verifications_for_scoring,
                                     [claim |-> claim_model.text,
                                      final_assessment |-> status])
                       /\ UNCHANGED <<pc, http>>
    /\ UNCHANGED <<request, env, claims, source_analysis_result, sentiment_result,
                   final_score_response, ModuleVars>>

\* image.py: one turn of the claim loop
VerifyImage ==
    /\ pc = "verify"
    /\ request.endpoint = "image"
    /\ Len(claim_breakdowns) < Len(claims)
    /\ \E w \in PipVerifyWorlds(env) :
          LET claim_model == claims[Len(claim_breakdowns) + 1]
              verification_result == verify_claim(claim_model.text, w)
          IN  /\ claim_breakdowns' =
                     Append(claim_breakdowns,
                            ClaimBreakdown(verification_result.claim,
                                           verification_result.final_assessment,
                                           verification_result.reasoning))
              /\ claim_verifications_for_scoring' =
                     Append(claim_verifications_for_scoring,
                            [claim |-> verification_result.claim,
                             final_assessment |-> verification_result.final_assessment])
    /\ UNCHANGED <<pc, request, env, claims, source_analysis_result, sentiment_result,
                   http, final_score_response, ModuleVars>>

\* entry.py steps 5 and 6
RespondText ==
    /\ pc = "verify"
    /\ request.endpoint = "text"
    /\ Len(claim_breakdowns) = Len(claims)
    /\ pc' = "done"
    /\ \E llm \in SiteLlm(env.gemini_key) :
          LET scored ==
                  aggregate_scores(claim_verifications_for_scoring, sentiment_result,
                                   source_analysis_result, llm)
          IN  /\ final_score_response' = scored
              /\ IF Truthy(request.url) /\ Len(request.url) < 3
                 THEN \* request.url.split('/')[2] raises
                      http' = Http500(ErrIndex)
                 ELSE http' = Http200(AnalysisResponse(
                       scored,
                       claim_breakdowns,
                       [publisher |-> IF Truthy(request.url) THEN request.url[3]
                                      ELSE "Unknown",
                        credibility_score |-> source_analysis_result.credibility_score,
                        potential_bias    |-> source_analysis_result.bias_assessment],
                       sentiment_result))
    /\ UNCHANGED <<request, env, claims, source_analysis_result, sentiment_result,
                   claim_breakdowns, claim_verifications_for_scoring, ModuleVars>>

\* image.py steps 6 to 8
RespondImage ==
    /\ pc = "verify"
    /\ request.endpoint = "image"
    /\ Len(claim_breakdowns) = Len(claims)
    /\ pc' = "done"
    /\ \E llm \in SiteLlm(env.gemini_key) :
          LET scored ==
                  aggregate_scores(claim_verifications_for_scoring, sentiment_result,
                                   dummy_source, llm)
          IN  /\ final_score_response' = scored
              /\ http' = Http200(AnalysisResponse(
                  scored,
                  claim_breakdowns,
                  [publisher |-> "Unknown",
                   credibility_score |-> RInt(0),
                   potential_bias    |-> <<"Unknown">>],
                  sentiment_result))
    /\ UNCHANGED <<request, env, claims, source_analysis_result, sentiment_result,
                   claim_breakdowns, claim_verifications_for_scoring, ModuleVars>>

Next ==
    \/ Ocr
    \/ Extract
    \/ Source
    \/ Sentiment
    \/ VerifyText
    \/ VerifyImage
    \/ RespondText
    \/ RespondImage

Spec == Init /\ [][Next]_vars

----------------------------------------------------------------------------
(* Claims about aggregate_scores.                                          *)

NumWith(cvs, a) == Cardinality({i \in DOMAIN cvs : cvs[i].final_assessment = a})

Floor0(n) == IF n < 0 THEN 0 ELSE n

\* max(0, supported - 2*contradicted) / total, 0 without claims
ExpectedVerification(cvs) ==
    IF Len(cvs) = 0 THEN <<0, 1>>
    ELSE Rat(Floor0(NumWith(cvs, <<"SUPPORTED">>) - 2 * NumWith(cvs, <<"CONTRADICTED">>)),
             Len(cvs))

Clamp01(x) == IF RLess(x, <<0, 1>>) THEN <<0, 1>>
              ELSE IF RLess(<<1, 1>>, x) THEN <<1, 1>> ELSE x

\* 0.6*v + 0.2*(1 - |compound|) + 0.2*credibility, in thousandths of v's denominator
ExpectedFinal(cvs, compound, credibility) ==
    LET v == ExpectedVerification(cvs)
    IN  Clamp01(Rat(600 * v[1] + 2 * (100 - Abs(compound)) * v[2]
                    + 2 * credibility * v[2],
                    1000 * v[2]))

C3_VerificationScoreInUnitInterval ==
    agg_pc = "done" =>
        /\ RLeq(<<0, 1>>, agg_out.locals.verification_score)
        /\ RLeq(agg_out.locals.verification_score, <<1, 1>>)

C3_Witness ==
    /\ agg_pc = "done"
    /\ NumWith(agg_in.claim_verifications, <<"CONTRADICTED">>)
         > NumWith(agg_in.claim_verifications, <<"SUPPORTED">>)
    /\ agg_out.locals.verification_score = <<0, 1>>

\* C4: verification score = max(0, supported - 2*contradicted) / total with
\* at least one claim, 0 with none; 2 SUPPORTED and 1 CONTRADICTED of 3 give 0.
C4_VerificationScoreFormula ==
    agg_pc = "done" =>
        /\ agg_out.locals.verification_score =
               ExpectedVerification(agg_in.claim_verifications)
        /\ (/\ Len(agg_in.claim_verifications) = 3
            /\ NumWith(agg_in.claim_verifications, <<"SUPPORTED">>) = 2
            /\ NumWith(agg_in.claim_verifications, <<"CONTRADICTED">>) = 1)
           => agg_out.locals.verification_score = <<0, 1>>

C4_Witness ==
    /\ agg_pc = "done"
    /\ Len(agg_in.claim_verifications) = 3
    /\ NumWith(agg_in.claim_verifications, <<"SUPPORTED">>) = 2
    /\ NumWith(agg_in.claim_verifications, <<"CONTRADICTED">>) = 1
    /\ agg_out.locals.verification_score = <<0, 1>>

\* aggregate_scores on the call's arguments with another credibility score
AggWithCredibility(credibility) ==
    aggregate_scores(agg_in.claim_verifications, AggSentiment(agg_in.compound),
                     AggSource(credibility), agg_in.llm)

\* aggregate_scores on the call's arguments with another compound polarity
AggWithCompound(compound) ==
    aggregate_scores(agg_in.claim_verifications, AggSentiment(compound),
                     AggSource(agg_in.credibility), agg_in.llm)

\* C12: for fixed verdicts and sentiment, a higher credibility score never
\* gives a lower final score.
C12_MonotonicInSourceScore ==
    agg_pc = "done" =>
        \A higher \in AggCredibility :
            higher >= agg_in.credibility =>
                RLeq(agg_out.trust_score, AggWithCredibility(higher).trust_score)

\* the final score strictly rises between credibility 0.5 and 0.8
C12_Witness ==
    /\ agg_pc = "done"
    /\ agg_in.credibility = 50
    /\ RLess(agg_out.trust_score, AggWithCredibility(80).trust_score)

\* C13: compound +c and compound -c give the same sentiment score and the
\* same final score.
C13_SentimentSymmetric ==
    agg_pc = "done" =>
        LET mirrored == AggWithCompound(-agg_in.compound)
        IN  /\ agg_out.locals.sentiment_score = mirrored.locals.sentiment_score
            /\ agg_out.trust_score = mirrored.trust_score

C13_Witness ==
    /\ agg_pc = "done"
    /\ agg_in.compound = -80
    /\ agg_out.locals.sentiment_score = Rat(2, 10)
    /\ AggWithCompound(80).locals.sentiment_score = Rat(2, 10)

TierTemplate(final_score) ==
    IF RLess(Rat(7, 10), final_score)
    THEN "The text appears to be generally trustworthy, with most claims supported by evidence and neutral language."
    ELSE IF RLess(Rat(4, 10), final_score)
    THEN "Exercise caution. While some claims are supported, there are indicators of potential bias or unverified information."
    ELSE "High skepticism advised. The text contains significant contradictions, biased language, or originates from a source with low credibility."

\* C14: when the summarizer is unavailable or its call raises, the summary is
\* the tier template chosen by finalScore > 0.7, else > 0.4, else the lowest.
C14_FailedSummaryIsTierTemplate ==
    (agg_pc = "done" /\ agg_in.llm \in {LlmNone, LlmRaise}) =>
        agg_out.summary = TierTemplate(agg_out.trust_score)

----------------------------------------------------------------------------
(* Claims about verify_claim.                                              *)

Labels == {<<"SUPPORTED">>, <<"CONTRADICTED">>, <<"UNCERTAIN">>}

SummarizerFails(w) == ~w.llm_configured \/ w.classify.kind = "raise"

\* the first line of the classification response, as verify_claim reads it
FirstLine(w) == Strip(Split(Strip(w.classify.text), "\n")[1])

\* the classification step fails: no summarizer, the call raises, or the
\* response does not start with one of the three labels
ClassificationFails(w) == SummarizerFails(w) \/ FirstLine(w) \notin Labels

DescribesFailure(reasoning) == Len(reasoning) = 3 /\ reasoning[1] = "An error occurred:"

\* C6: when the classification step fails (summarizer unconfigured, raising,
\* or returning an unusable response) the verdict is UNCERTAIN with a
\* reasoning that describes the failure.
C6_ClassificationFailureIsUncertain ==
    (ver_pc = "done" /\ ClassificationFails(ver_in)) =>
        /\ ver_out.final_assessment = <<"UNCERTAIN">>
        /\ DescribesFailure(ver_out.reasoning)

NoUsableEvidence(w) ==
    \A a \in AdapterSet : (NeedsKey(a) /\ ~w.ev1.keys[a]) \/ w.ev1.net[a] # "results"

\* C7 as stated: no usable snippet from any adapter gives an UNCERTAIN verdict.
C7_NoEvidenceIsUncertain ==
    (ver_pc = "done" /\ NoUsableEvidence(ver_in)) =>
        /\ ver_out.type = "ClaimVerification"
        /\ ver_out.final_assessment = <<"UNCERTAIN">>

\* C7 (amended): with no usable snippet from any adapter verify_claim still
\* returns a ClaimVerification; it is UNCERTAIN when the summarizer is
\* unconfigured or raises, and otherwise carries the first line of the
\* summarizer's answer (or UNCERTAIN after an error in the second round).
C7_NoEvidenceStillVerdict ==
    (ver_pc = "done" /\ NoUsableEvidence(ver_in)) =>
        /\ ver_out.type = "ClaimVerification"
        /\ SummarizerFails(ver_in) => ver_out.final_assessment = <<"UNCERTAIN">>
        /\ ~SummarizerFails(ver_in) =>
              ver_out.final_assessment \in {FirstLine(ver_in), <<"UNCERTAIN">>}

C7_Witness ==
    /\ ver_pc = "done"
    /\ NoUsableEvidence(ver_in)
    /\ ~SummarizerFails(ver_in)
    /\ ver_out.final_assessment = <<"SUPPORTED">>

\* C8: corrective_statement is set only on CONTRADICTED, supporting_evidence
\* only on SUPPORTED, and neither on UNCERTAIN.
C8_StatementMatchesAssessment ==
    ver_pc = "done" =>
        /\ ver_out.corrective_statement # "None"
              => ver_out.final_assessment = <<"CONTRADICTED">>
        /\ ver_out.supporting_evidence # "None"
              => ver_out.final_assessment = <<"SUPPORTED">>
        /\ ver_out.final_assessment = <<"UNCERTAIN">>
              => /\ ver_out.corrective_statement = "None"
                 /\ ver_out.supporting_evidence = "None"

C8_Witness ==
    /\ ver_pc = "done"
    /\ ver_out.final_assessment = <<"CONTRADICTED">>
    /\ ver_out.corrective_statement = "<statement>"
    /\ ver_out.supporting_evidence = "None"

----------------------------------------------------------------------------
(* Claims about analyze_sentiment_and_tone.                                *)

\* the two signals as the returned profile reports them
AbovePlus(profile)  == 100 * profile.vader_scores.compound[1]
                         > 5 * profile.vader_scores.compound[2]
BelowMinus(profile) == 100 * profile.vader_scores.compound[1]
                         < -5 * profile.vader_scores.compound[2]

ToneRule(profile) ==
    /\ profile.overall_sentiment = "POSITIVE"
          <=> (AbovePlus(profile) /\ profile.transformer_label = "POSITIVE")
    /\ profile.overall_sentiment = "NEGATIVE"
          <=> (BelowMinus(profile) /\ profile.transformer_label = "NEGATIVE")
    /\ profile.overall_sentiment \notin {"POSITIVE", "NEGATIVE"}
          => profile.overall_sentiment = "NEUTRAL"

\* C9 as stated: POSITIVE iff compound > 0.05 and label POSITIVE, NEGATIVE iff
\* compound < -0.05 and label NEGATIVE, NEUTRAL in every other case.
C9_ToneRuleEveryProfile == sen_pc = "done" => ToneRule(sen_out)

\* C9 (amended): the rule holds for every profile computed by loaded
\* analyzers; the degraded profile of unloaded analyzers has tone UNKNOWN.
C9_ToneRuleWhenLoaded ==
    sen_pc = "done" =>
        /\ sen_in.loaded => ToneRule(sen_out)
        /\ sen_in.loaded => sen_out.vader_scores.compound = Rat(sen_in.compound, 100)
        /\ sen_in.loaded => sen_out.transformer_label = sen_in.label
        /\ ~sen_in.loaded => sen_out.overall_sentiment = "UNKNOWN"

\* the signals disagree strongly and the tone is NEUTRAL
C9_Witness ==
    /\ sen_pc = "done"
    /\ sen_in.loaded
    /\ sen_in.compound = 100
    /\ sen_in.label = "NEGATIVE"
    /\ sen_out.overall_sentiment = "NEUTRAL"

\* C10 as stated: every returned profile, the degraded one included, has a
\* tone among POSITIVE, NEGATIVE, NEUTRAL.
C10_ToneInEnum ==
    sen_pc = "done" => sen_out.overall_sentiment \in {"POSITIVE", "NEGATIVE", "NEUTRAL"}

\* C10 (amended): the tone is POSITIVE, NEGATIVE or NEUTRAL when the analyzers
\* are loaded and UNKNOWN in the degraded profile, which also carries the
\* UNAVAILABLE label and all-zero scores.
C10_ToneInEnumOrUnknown ==
    sen_pc = "done" =>
        /\ sen_in.loaded
              => sen_out.overall_sentiment \in {"POSITIVE", "NEGATIVE", "NEUTRAL"}
        /\ ~sen_in.loaded
              => /\ sen_out.overall_sentiment = "UNKNOWN"
                 /\ sen_out.transformer_label = "UNAVAILABLE"
                 /\ sen_out.vader_scores.compound = <<0, 1>>
                 /\ sen_out.vader_scores.neu = <<0, 1>>

C10_Witness ==
    /\ sen_pc = "done"
    /\ ~sen_in.loaded
    /\ sen_out.overall_sentiment = "UNKNOWN"
    /\ sen_out.transformer_label = "UNAVAILABLE"

----------------------------------------------------------------------------
(* Claims about the endpoints.                                              *)

WellFormed(response) ==
    /\ response.status = 200
    /\ response.body.trust_score \in Int \X Int
    /\ RLeq(RInt(0), response.body.trust_score)
    /\ RLeq(response.body.trust_score, RInt(1))
    /\ response.body.summary \in
           {SummaryHigh, SummaryMid, SummaryLow, SummaryUnavailable, SummaryDynamic}

\* C1: every request to the text endpoint, whatever the url, the number of
\* extracted claims and the failures of adapters, summarizer and models, ends
\* in a well-formed response with a numeric trust score and a summary, never
\* in an error response.
C1_TextRequestNeverErrors ==
    (pc = "done" /\ request.endpoint = "text") => WellFormed(http)

\* C5: the status of every ClaimBreakdown of every response is SUPPORTED,
\* CONTRADICTED or UNCERTAIN, whatever the summarizer answered.
C5_StatusInEnum ==
    (pc = "done" /\ http.status = 200) =>
        \A i \in DOMAIN http.body.breakdown.claim_extraction :
            http.body.breakdown.claim_extraction[i].status \in Labels

----------------------------------------------------------------------------
(* Claims about analyze_source.                                            *)

InRegistry(url) ==
    Truthy(url) /\ ~UrlparseRaises(url) /\ Netloc(url) \in BiasedDomains

\* analyze_source itself: 0.5 and a note quoting the registry text when the
\* url's domain is in the registry, 0.8 and the generic note otherwise (no
\* url, unparsable url, domain not in the registry).
AssessScoresByRegistry ==
    src_pc = "done" =>
        IF InRegistry(src_in.url)
        THEN /\ src_out.credibility_score = Rat(5, 10)
             /\ \E i \in DOMAIN src_out.notes :
                    src_out.notes[i] = BIASED_SOURCES(Netloc(src_in.url))
        ELSE /\ src_out.credibility_score = Rat(8, 10)
             /\ src_out.notes = <<"Source not found in the watchlist.">>

\* C11: the credibility score of a request is 0.5 when the url's domain is in
\* the registry and 0.8 otherwise; no response carries any other score.
C11_ScoreIsHalfOrDefault ==
    (pc = "done" /\ http.status = 200) =>
        http.body.breakdown.source_analysis.credibility_score
            \in {Rat(5, 10), Rat(8, 10)}

\* C15: when the summarizer is unavailable or its call raises, the bias
\* assessment returned by analyze_source is the raw note verbatim.
C15_FailedRephrasingKeepsNote ==
    (src_pc = "done" /\ src_in.llm \in {LlmNone, LlmRaise}) =>
        src_out.bias_assessment = src_out.notes

----------------------------------------------------------------------------
(* Claims about the flags and about extraction inside the endpoints.       *)

Extreme(score) == RLess(Rat(7, 10), RAbs(score))

\* C16: the flags list holds the sentiment note whenever the note signals a
\* warning, and is non-empty whenever |compound| > 0.7.
C16_ExtremeSentimentIsFlagged ==
    (pc = "done" /\ http.status = 200) =>
        /\ HasWarning(sentiment_result.notes)
              => http.body.flags = <<sentiment_result.notes>>
        /\ Extreme(http.body.breakdown.sentiment_analysis.score)
              => http.body.flags # <<>>

\* extract_claims has returned in this request
Extracted ==
    \/ pc \in {"source", "sentiment", "verify"}
    \/ pc = "done" /\ http.detail # "OCR failed"

\* C17: when the summarizer of the claim extractor is unavailable (every call
\* raises) the claim list is empty, and the request goes on to
\* aggregate_scores with zero claims.
C17_FailedExtractionGivesNoClaims ==
    /\ (Extracted /\ ~env.gemini_key) => claims = <<>>
    /\ (pc = "done" /\ Extracted /\ ~env.gemini_key) =>
           /\ final_score_response.locals.verification_score = <<0, 1>>
           /\ final_score_response.factors.verification = <<"No claims were verified.">>

C17_Witness ==
    /\ pc = "done"
    /\ request.endpoint = "text"
    /\ ~env.gemini_key
    /\ claims = <<>>
    /\ http.status = 200
    /\ http.body.breakdown.claim_extraction = <<>>

----------------------------------------------------------------------------
(* Claims about extract_claims.                                            *)

IsBlank(line) == \A i \in DOMAIN line : line[i] \in {" ", "\n"}

\* the emitted lines that are not blank, in emission order
RECURSIVE NonBlank(_)
NonBlank(lines) ==
    IF lines = <<>> THEN <<>>
    ELSE IF IsBlank(lines[Len(lines)])
         THEN NonBlank(SubSeq(lines, 1, Len(lines) - 1))
         ELSE Append(NonBlank(SubSeq(lines, 1, Len(lines) - 1)), lines[Len(lines)])

\* a line without its leading and trailing whitespace
RECURSIVE Trimmed(_)
Trimmed(line) ==
    IF line = <<>> THEN <<>>
    ELSE IF line[1] \in {" ", "\n"} THEN Trimmed(Tail(line))
    ELSE IF line[Len(line)] \in {" ", "\n"} THEN Trimmed(SubSeq(line, 1, Len(line) - 1))
    ELSE line

\* a line without its leading and trailing hyphens and blanks
RECURSIVE Unbulleted(_)
Unbulleted(line) ==
    IF line = <<>> THEN <<>>
    ELSE IF line[1] \in {"-", " ", "\n"} THEN Unbulleted(Tail(line))
    ELSE IF line[Len(line)] \in {"-", " ", "\n"}
         THEN Unbulleted(SubSeq(line, 1, Len(line) - 1))
    ELSE line

\* C18 as stated: one claim per non-empty line, its text the trimmed line, in
\* emission order, repeats kept.
C18_OneClaimPerLineTrimmed ==
    (ext_pc = "done" /\ ext_in.call.kind = "text") =>
        LET kept == NonBlank(ext_in.lines)
        IN  /\ Len(ext_out) = Len(kept)
            /\ \A i \in DOMAIN kept : ext_out[i].text = Trimmed(kept[i])

\* C18 (amended): one claim per non-blank line, in emission order, repeats
\* kept; its text is the line without leading and trailing hyphens and
\* whitespace, so a line holding only a bullet gives a claim with empty text.
C18_OneClaimPerLineUnbulleted ==
    (ext_pc = "done" /\ ext_in.call.kind = "text") =>
        LET kept == NonBlank(ext_in.lines)
        IN  /\ Len(ext_out) = Len(kept)
            /\ \A i \in DOMAIN kept : ext_out[i].text = Unbulleted(kept[i])

\* a bulleted line, a repeat of the same claim and a bare bullet
C18_Witness ==
    /\ ext_pc = "done"
    /\ ext_in.lines = <<<<"-", " ", "claim A">>, <<"claim A">>, <<"-", " ">>>>
    /\ ext_out = <<[text |-> <<"claim A">>], [text |-> <<"claim A">>], [text |-> <<>>]>>

----------------------------------------------------------------------------
(* Claims about the second round of verify_claim.                          *)

FirstRoundCalls == <<"search_all_sources", "llm.generate_content">>

SecondRoundCalls ==
    <<"generate_alternative_query", "search_all_sources", "analyze_alternative_results">>

IsPrefix(s, t) == Len(s) <= Len(t) /\ SubSeq(t, 1, Len(s)) = s

\* the classification of the first round gave SUPPORTED or CONTRADICTED
ClassifiedDecided(w) ==
    /\ w.llm_configured
    /\ w.classify.kind = "text"
    /\ Strip(Split(Strip(w.classify.text), "\n")[1])
           \in {<<"SUPPORTED">>, <<"CONTRADICTED">>}

\* C19: the second round (follow-up query, evidence round, synthesis) runs
\* exactly when the classification gave SUPPORTED or CONTRADICTED, after the
\* first search and the classification; otherwise no second-round call is
\* made and the source list is empty.
C19_SecondRoundIffDecided ==
    /\ IsPrefix(vs_calls, FirstRoundCalls \o SecondRoundCalls)
    /\ vs_pc = "done" =>
           IF ClassifiedDecided(vs_in)
           THEN vs_calls = FirstRoundCalls \o SecondRoundCalls
           ELSE /\ IsPrefix(vs_calls, FirstRoundCalls)
                /\ vs_out.sources = <<>>

C19_Witness ==
    /\ vs_pc = "done"
    /\ vs_calls = FirstRoundCalls \o SecondRoundCalls
    /\ vs_out.final_assessment = <<"CONTRADICTED">>
    /\ Len(vs_out.sources) > 0

\* C20: every ClaimVerification carries at most 3 source URLs, whatever the
\* summarizer lists in the synthesis response.
C20_AtMostThreeSources ==
    ver_pc = "done" => Len(ver_out.sources) <= 3

----------------------------------------------------------------------------
(* Claims about the synthesis step and the evidence rounds.                *)

\* the synthesis call answered, but not with the requested object: the
\* document is not a JSON object, has no statement, has no list of sources,
\* or is surrounded by text other than a code fence
MalformedSynthesis(c) ==
    /\ c.kind = "text"
    /\ \/ c.json.t # "dict"
       \/ c.json.statement = None
       \/ c.json.sources_kind # "list"
       \/ Strip(RemoveFences(c.pre)) # <<>>
       \/ Strip(RemoveFences(c.post)) # <<>>

\* the statement a verdict carries for its assessment
StatementOf(v) ==
    IF v.final_assessment = CONTRADICTED THEN v.corrective_statement
    ELSE v.supporting_evidence

\* C21: when the synthesis output is malformed, the failure is recovered
\* locally: the verdict's statement is the analysis-unavailable text and the
\* list of cited sources is empty.
C21_MalformedSynthesisRecovered ==
    (ver_pc = "done" /\ ClassifiedDecided(ver_in) /\ MalformedSynthesis(ver_in.synth)) =>
        /\ StatementOf(ver_out) = StatementFailed
        /\ ver_out.sources = <<>>

\* what one evidence round must hold for the world it ran in
RoundComplete(evidence, world) ==
    /\ \A a \in AdapterSet : \E i \in DOMAIN evidence : evidence[i].source = a
    /\ \A i \in DOMAIN evidence :
          LET a == evidence[i].source
          IN  /\ (NeedsKey(a) /\ ~world.keys[a]) => evidence[i].kind = "not_configured"
              /\ (~(NeedsKey(a) /\ ~world.keys[a]) /\ world.net[a] = "error")
                     => evidence[i].kind = "error"
              /\ (~(NeedsKey(a) /\ ~world.keys[a]) /\ world.net[a] = "results")
                     => evidence[i].kind = "results"

\* C22: in an evidence round every adapter is queried whatever the others
\* did; an unconfigured or raising adapter contributes its placeholder, the
\* round does not abort, and the results of the other adapters are present.
C22_EveryAdapterContributes ==
    /\ vs_pc \notin {"search"} =>
           /\ "search_all_sources" \in {vs_calls[i] : i \in DOMAIN vs_calls}
           /\ RoundComplete(vs_locals.initial_search_results, vs_in.ev1)
    /\ vs_pc = "synthesis" =>
           RoundComplete(vs_locals.alternative_results_str, vs_in.ev2)

\* six adapters raise and the seventh still delivers its results
C22_Witness ==
    /\ vs_pc = "classify"
    /\ \E i \in DOMAIN vs_locals.initial_search_results :
          vs_locals.initial_search_results[i].kind = "results"
    /\ Cardinality({i \in DOMAIN vs_locals.initial_search_results :
                       vs_locals.initial_search_results[i].kind = "error"}) = 6

\* C28: a failure anywhere in the second round (follow-up query, evidence
\* queries, synthesis output of any shape) leaves the assessment of the first
\* round unchanged: a claim classified SUPPORTED or CONTRADICTED is returned
\* with that assessment.
C28_SecondRoundKeepsAssessment ==
    (ver_pc = "done" /\ ClassifiedDecided(ver_in)) =>
        ver_out.final_assessment = FirstLine(ver_in)

----------------------------------------------------------------------------
(* services/analysis_service.py: perform_analysis.  A content string is a  *)
(* sequence of characters.                                                 *)

AsciiUpper == <<"A", "B", "C", "D", "E", "F", "G", "H", "I", "J", "K", "L", "M">>
              \o <<"N", "O", "P", "Q", "R", "S", "T", "U", "V", "W", "X", "Y", "Z">>
AsciiLower == <<"a", "b", "c", "d", "e", "f", "g", "h", "i", "j", "k", "l", "m">>
              \o <<"n", "o", "p", "q", "r", "s", "t", "u", "v", "w", "x", "y", "z">>

\* str.lower() with every character kept as it is
lower_keeps_case(content) == content

\* str.lower()
lower(content) ==
    [i \in DOMAIN content |->
        IF \E j \in DOMAIN AsciiUpper : AsciiUpper[j] = content[i]
        THEN AsciiLower[CHOOSE j \in DOMAIN AsciiUpper : AsciiUpper[j] = content[i]]
        ELSE content[i]]

\* word in text
IsSubstring(word, text) ==
    \E k \in 0..(Len(text) - Len(word)) : SubSeq(text, k + 1, k + Len(word)) = word

trigger_words ==
    <<<<"s", "h", "o", "c", "k", "i", "n", "g">>,
      <<"m", "i", "s", "l", "e", "a", "d", "i", "n", "g">>,
      <<"f", "a", "k", "e">>,
      <<"u", "n", "r", "e", "l", "i", "a", "b", "l", "e">>>>

\* random.uniform(a, b) is a + (b - a) * random.random()
uniform(a, b, r) == RAdd(a, RMul(RSub(b, a), r))

ExplanationFlagged  == <<"Uses", "emotionally charged", "language">>
ExplanationReliable == <<"Content", "appears", "reliable">>

\* r: what random.random() returns in this call
perform_analysis(content, r) ==
    LET content_lower == lower(content)
        is_misleading ==
            \E i \in DOMAIN trigger_words : IsSubstring(trigger_words[i], content_lower)
    IN  [is_potentially_misleading |-> is_misleading,
         confidence_score |->
             IF is_misleading THEN uniform(Hundredths(65), Hundredths(95), r)
             ELSE uniform(RInt(0), Hundredths(50), r),
         explanation |->
             IF is_misleading THEN ExplanationFlagged ELSE ExplanationReliable]

----------------------------------------------------------------------------
(* perform_analysis as a function of the content and of the random draw.   *)
(* A content is up to MaxChunks pieces of text put together, long enough   *)
(* for AnalysisRequest to accept it.                                       *)

MaxChunks == 3

\* AnalysisRequest.content: min_length
MinLength == 10

ContentChunks ==
    {<<"S", "h", "o", "c", "k", "i", "n", "g">>,
     <<"F", "A", "K", "E">>,
     <<"f", "a">>,
     <<"k", "e">>,
     <<"M", "i", "s", "l", "e", "a", "d", "i", "n", "g">>,
     <<"u", "n", "R", "e", "l", "i", "a", "b", "l", "e">>,
     <<"r", "e", "l", "i", "a", "b", "l", "e">>,
     <<" ", "n", "e", "w", "s", " ">>}

RECURSIVE Contents(_)
Contents(k) ==
    IF k = 0 THEN {<<>>}
    ELSE Contents(k - 1) \cup {c \o x : c \in Contents(k - 1), x \in ContentChunks}

\* random.random() lies in [0, 1); rounding lets uniform reach its upper end
RandomDraws == {RInt(0), Rat(1, 2), RInt(1)}

AnInputs ==
    {[content |-> c, r |-> r] :
        c \in {x \in Contents(MaxChunks) : Len(x) >= MinLength}, r \in RandomDraws}

InitAnalysis ==
    /\ an_pc = "ready"
    /\ an_in \in AnInputs
    /\ an_out = None
    /\ AggOff /\ VerOff /\ SenOff /\ PipOff /\ SrcOff /\ ExtOff /\ VsOff /\ TkOff

AnalysisCall ==
    /\ an_pc = "ready"
    /\ an_out' = perform_analysis(an_in.content, an_in.r)
    /\ an_pc' = "done"
    /\ UNCHANGED <<an_in, aggVars, verVars, senVars, pipVars, srcVars, extVars, vsVars, tkVars>>

NextAnalysis == AnalysisCall

SpecAnalysis == InitAnalysis /\ [][NextAnalysis]_vars

----------------------------------------------------------------------------
(* Claims about perform_analysis.                                          *)

SameLetter(a, b) ==
    \/ a = b
    \/ \E j \in DOMAIN AsciiUpper : {a, b} = {AsciiUpper[j], AsciiLower[j]}

\* word occurs in text when the case of letters is ignored
OccursIgnoringCase(word, text) ==
    \E k \in 0..(Len(text) - Len(word)) :
        \A i \in DOMAIN word : SameLetter(text[k + i], word[i])

HasTriggerWord(content) ==
    \E i \in DOMAIN trigger_words : OccursIgnoringCase(trigger_words[i], content)

Says(explanation, phrase) == \E i \in DOMAIN explanation : explanation[i] = phrase

\* C25: perform_analysis flags the content exactly when it contains one of
\* the trigger words, case ignored; the explanation says "emotionally
\* charged" when flagged and "reliable" otherwise; the confidence score is
\* between 0 and 1.
C25_FlaggedIffTriggerWord ==
    an_pc = "done" =>
        /\ an_out.is_potentially_misleading <=> HasTriggerWord(an_in.content)
        /\ IF an_out.is_potentially_misleading
           THEN Says(an_out.explanation, "emotionally charged")
           ELSE Says(an_out.explanation, "reliable")
        /\ RLeq(RInt(0), an_out.confidence_score)
        /\ RLeq(an_out.confidence_score, RInt(1))

\* a trigger word in capitals, the draw at the upper end
C25_Witness ==
    /\ an_pc = "done"
    /\ an_in.content = <<"F", "A", "K", "E", " ", "n", "e", "w", "s", " ", "r", "e", "l", "i", "a", "b", "l", "e">>
    /\ an_out.is_potentially_misleading
    /\ an_out.confidence_score = Hundredths(95)

----------------------------------------------------------------------------
(* tasks/processors.py and tasks/processor.py: the task registry.  A task  *)
(* id is the name of the temporary file of the upload; ids are numbered in *)
(* the order of submission.                                                *)

MaxTasks == 2

\* app/tasks/processors.py, or api/tasks/processor.py (audio only)
Impls == {"app", "api"}

Processors == {"transcribe_audio", "extract_text_from_image"}

\* what the processor call does once the executor runs it
ProcessorOutcomes ==
    {[kind |-> "return", value |-> "<extracted text>"],
     [kind |-> "raise",  value |-> "<str(e)>"]}

\* tasks[task_id] = {"status": "pending"}
PendingRecord(impl) ==
    IF impl = "api" THEN [status |-> "pending", result |-> None]
    ELSE [status |-> "pending"]

\* tasks[task_id]["status"] = "processing"
ProcessingRecord(record) == [record EXCEPT !.status = "processing"]

FailureStatus(impl) == IF impl = "api" THEN "failed" ELSE "error"

\* a failed job is put back in the queue
FinishedRecord_requeues(impl, outcome) ==
    IF outcome.kind = "return"
    THEN [status |-> "completed", result |-> outcome.value]
    ELSE [status |-> "pending"]

\* a failed job keeps its record as it is
FinishedRecord_swallows(impl, outcome) ==
    IF outcome.kind = "return"
    THEN [status |-> "completed", result |-> outcome.value]
    ELSE [status |-> "processing"]

\* the try/except of file_processor
FinishedRecord(impl, outcome) ==
    IF outcome.kind = "return"
    THEN [status |-> "completed", result |-> outcome.value]
    ELSE [status |-> FailureStatus(impl), error |-> outcome.value]

Reply(status_code, body) == [status_code |-> status_code, body |-> body]

\* no request has been answered yet
NoReply == Reply(0, [detail |-> None])

\* the processor has not finished
NoOutcome == [kind |-> "none", value |-> None]

InitTasks ==
    /\ tk_impl \in Impls
    /\ tasks = <<>>
    /\ background_tasks = <<>>
    /\ temp_files = {}
    /\ tk_reply = NoReply
    /\ AggOff /\ VerOff /\ SenOff /\ PipOff /\ SrcOff /\ ExtOff /\ VsOff /\ AnOff

TkOthers == <<aggVars, verVars, senVars, pipVars, srcVars, extVars, vsVars, anVars>>

\* analyze_audio / analyze_image: process_audio_task or process_image_task
\* saves the upload, registers the task and schedules file_processor
SubmitTask(processor) ==
    /\ Len(tasks) < MaxTasks
    /\ tk_impl = "api" => processor = "transcribe_audio"
    /\ LET task_id == Len(tasks) + 1
       IN  /\ temp_files' = temp_files \cup {task_id}
           /\ tasks' = Append(tasks, PendingRecord(tk_impl))
           /\ background_tasks' =
                  Append(background_tasks,
                         [at |-> "scheduled", processor |-> processor, outcome |-> NoOutcome])
           /\ tk_reply' = Reply(200, [task_id |-> task_id])
    /\ UNCHANGED <<tk_impl, TkOthers>>

\* file_processor up to its await
StartJob(task_id) ==
    /\ task_id \in DOMAIN background_tasks
    /\ background_tasks[task_id].at = "scheduled"
    /\ tasks' = [tasks EXCEPT ![task_id] = ProcessingRecord(@)]
    /\ background_tasks' = [background_tasks EXCEPT ![task_id].at = "running"]
    /\ UNCHANGED <<tk_impl, temp_files, tk_reply, TkOthers>>

\* file_processor after its await: the processor returned or raised
FinishJob(task_id, outcome) ==
    /\ task_id \in DOMAIN background_tasks
    /\ background_tasks[task_id].at = "running"
    /\ tasks' = [tasks EXCEPT ![task_id] = FinishedRecord(tk_impl, outcome)]
    /\ temp_files' = temp_files \ {task_id}
    /\ background_tasks' = [background_tasks EXCEPT ![task_id].at = "finished",
                                                    ![task_id].outcome = outcome]
    /\ UNCHANGED <<tk_impl, tk_reply, TkOthers>>

\* GET /tasks/{task_id}
get_task_status(task_id) ==
    /\ tk_reply' = IF task_id \in DOMAIN tasks THEN Reply(200, tasks[task_id])
                   ELSE Reply(404, [detail |-> "Task not found"])
    /\ UNCHANGED <<tk_impl, tasks, background_tasks, temp_files, TkOthers>>

NextTasks ==
    \/ \E processor \in Processors : SubmitTask(processor)
    \/ \E task_id \in 1..MaxTasks : StartJob(task_id)
    \/ \E task_id \in 1..MaxTasks, outcome \in ProcessorOutcomes : FinishJob(task_id, outcome)
    \/ \E task_id \in 1..MaxTasks : get_task_status(task_id)

SpecTasks == InitTasks /\ [][NextTasks]_vars

\* every scheduled job is run, and every processor call returns or raises
SpecTasksFair ==
    /\ SpecTasks
    /\ \A task_id \in 1..MaxTasks :
          /\ WF_vars(StartJob(task_id))
          /\ WF_vars(\E outcome \in ProcessorOutcomes : FinishJob(task_id, outcome))

----------------------------------------------------------------------------
(* Claims about the task registry.                                         *)

Statuses == {"pending", "processing", "completed", "error", "failed"}

Final == {"completed", "error", "failed"}

StatusSteps ==
    {<<"pending", "processing">>, <<"processing", "completed">>,
     <<"processing", "error">>, <<"processing", "failed">>}

\* one step of the registry respects the life cycle of every task
LifeCycleStep ==
    \A task_id \in DOMAIN tasks :
        /\ task_id \in DOMAIN tasks'
        /\ \/ tasks'[task_id].status = tasks[task_id].status
           \/ <<tasks[task_id].status, tasks'[task_id].status>> \in StatusSteps
        /\ tasks[task_id].status \in Final => tasks'[task_id] = tasks[task_id]

\* C26: the status of a task is always one of pending, processing, completed,
\* error/failed; it changes only pending -> processing -> completed or
\* pending -> processing -> error/failed, and a completed or error/failed
\* task never changes again, whatever the interleaving of submissions,
\* background jobs and status queries.
C26_StatusLifeCycle ==
    /\ [](\A task_id \in DOMAIN tasks : tasks[task_id].status \in Statuses)
    /\ [][LifeCycleStep]_vars

\* two tasks in flight at once, one finished and one still pending
C26_Witness ==
    /\ Len(tasks) = 2
    /\ tasks[2].status = "completed"
    /\ tasks[1].status = "pending"
    /\ tk_reply = Reply(200, tasks[2])

Reached(task_id, statuses) ==
    task_id \in DOMAIN tasks /\ tasks[task_id].status \in statuses

\* a completed record holds the result, a failed one the error text
RecordHoldsOutcome ==
    \A task_id \in DOMAIN tasks :
        LET record == tasks[task_id]
            job    == background_tasks[task_id]
        IN  /\ record.status = "completed" =>
                   /\ job.outcome.kind = "return"
                   /\ record = [status |-> "completed", result |-> job.outcome.value]
            /\ record.status \in {"error", "failed"} =>
                   /\ job.outcome.kind = "raise"
                   /\ record.error = job.outcome.value

\* C29: every task registered by process_audio_task or process_image_task
\* eventually reaches completed or error, provided its scheduled job is run
\* and the processor call returns or raises; a completed record holds the
\* result and an error record the error text.
C29_TaskReachesCompletedOrError ==
    /\ \A task_id \in 1..MaxTasks :
          (task_id \in DOMAIN tasks) ~> Reached(task_id, {"completed", "error"})
    /\ []RecordHoldsOutcome

\* C29 (amended): every registered task eventually reaches completed, or the
\* failure status of its package (error in app/tasks/processors.py, failed in
\* api/tasks/processor.py), under the same proviso; a completed record holds
\* the result and a failed one the error text.
C29_TaskReachesFinal ==
    /\ \A task_id \in 1..MaxTasks :
          (task_id \in DOMAIN tasks) ~> Reached(task_id, {"completed", FailureStatus(tk_impl)})
    /\ []RecordHoldsOutcome

\* one task completed with its result, the other failed with its error text
C29_Witness ==
    /\ Len(tasks) = 2
    /\ tasks[1] = [status |-> "completed", result |-> "<extracted text>"]
    /\ tasks[2].status = FailureStatus(tk_impl)
    /\ tasks[2].error = "<str(e)>"
    /\ temp_files = {}

----------------------------------------------------------------------------
(* Claims about the summarizer's influence on the score.                   *)

\* aggregate_scores on the arguments of this call, with another summarizer
AggWithLlm(llm) ==
    aggregate_scores(agg_in.claim_verifications, AggSentiment(agg_in.compound),
                     AggSource(agg_in.credibility), llm)

\* C27: for fixed verdicts, compound and credibility the trust score is the
\* same whether the summarizer is available, unavailable or failing; only
\* the summary string can differ.
C27_ScoreIndependentOfSummarizer ==
    agg_pc = "done" =>
        \A llm \in LlmOutcomes :
            /\ AggWithLlm(llm).trust_score = agg_out.trust_score
            /\ AggWithLlm(llm).factors = agg_out.factors
            /\ AggWithLlm(llm).locals = agg_out.locals

\* a call whose summary does differ between summarizers
C27_Witness ==
    /\ agg_pc = "done"
    /\ agg_in.llm = LlmRaise
    /\ agg_out.summary = SummaryUnavailable
    /\ AggWithLlm(LlmText).summary = SummaryDynamic
    /\ AggWithLlm(LlmNone).summary = SummaryMid
    /\ RLess(RInt(0), agg_out.trust_score)

----------------------------------------------------------------------------
(* Claims about the endpoints.                                             *)

\* C23: a summarizer call that is slow or never returns is cut off and
\* treated as a local failure, so that the analysis completes with the call
\* site's fallback value even if one summarizer call hangs: every call of
\* verify_claim made by a request eventually returns.
C23_RequestEventuallyCompletes == <>(vs_pc = "done")

\* what the text endpoint answers for the text of this request submitted
\* without a source URL: the same claims, verdicts and sentiment result
TextOutput(llm_source, llm_summary) ==
    LET source == analyze_source(NoUrl, llm_source)
        scored == aggregate_scores(claim_verifications_for_scoring, sentiment_result,
                                   source, llm_summary)
    IN  AnalysisResponse(scored, claim_breakdowns,
                         [publisher         |-> "Unknown",
                          credibility_score |-> source.credibility_score,
                          potential_bias    |-> source.bias_assessment],
                         sentiment_result)

TextEndpointOutcomes ==
    IF Len(claims) > 0 THEN {Http500(ErrNoUpper)}
    ELSE {Http200(TextOutput(a, b)) :
             a \in SiteLlm(env.gemini_key /\ env.source_loaded),
             b \in SiteLlm(env.gemini_key)}

\* C24: the image endpoint returns the same output as the text endpoint: for
\* an image whose extracted text is T, trust score, summary, breakdown and
\* flags are those of the text pipeline for T without a source URL.
C24_ImageOutputEqualsTextOutput ==
    (pc = "done" /\ request.endpoint = "image" /\ http.status = 200) =>
        \E t \in TextEndpointOutcomes : t.status = 200 /\ t.body = http.body

\* the domain analyze_source looks up in the registry
LookedUpDomain(url) == IF UrlparseRaises(url) THEN "" ELSE Netloc(url)

\* C30: in the text endpoint, for a request with a source URL of any shape,
\* the publisher reported is the domain analyze_source looked up in the
\* registry, and computing it does not make the request fail.
C30_PublisherIsLookedUpDomain ==
    (/\ pc = "done"
     /\ request.endpoint = "text"
     /\ Truthy(request.url)
     /\ http.detail # ErrNoUpper) =>
        /\ http.status = 200
        /\ http.body.breakdown.source_analysis.publisher = LookedUpDomain(request.url)

====
